---- MODULE Spec2Model ----
(***************************************************************************)
(* State-machine model of src/chess_game.py: the ChessGame object, its     *)
(* move generator (get_*_moves), its check detector (is_king_in_check),    *)
(* its move executor (make_move), the random-move AI (ai_make_move) and    *)
(* the mouse handlers of ChessGame.run.                                    *)
(*                                                                         *)
(* Squares are (row, col) with row 0 the black back rank and row 7 the     *)
(* white back rank, as in create_initial_board.  A Piece object is a       *)
(* record; its id stands for the identity of the Python object.            *)
(* selected_difficulty, the screen, the clock and the fonts are read by no *)
(* rule of the game and are left out.                                      *)
(***************************************************************************)
EXTENDS Integers, Sequences, FiniteSets, TLC

\* Number of input events explored after the scripted prefix of a behaviour.
MaxFree == 2

VARIABLES
    game_state,          \* self.game_state
    player_color,        \* self.player_color
    board,               \* self.board[row][col]
    selected_piece,      \* self.selected_piece
    valid_moves,         \* self.valid_moves
    turn,                \* self.turn
    game_over,           \* self.game_over
    winner,              \* self.winner
    white_king_moved,    \* castling tracking, six flags
    black_king_moved,
    white_rook_a_moved,
    white_rook_h_moved,
    black_rook_a_moved,
    black_rook_h_moved,
    en_passant_target,   \* self.en_passant_target: <<>> is None, else <<row, col>>
    move_history,        \* self.move_history
    objects,             \* number of Piece objects constructed so far (object identity)
    script,              \* input events still to be delivered from the scripted prefix
    budget               \* input events still allowed after the scripted prefix

vars == <<game_state, player_color, board, selected_piece, valid_moves, turn,
          game_over, winner, white_king_moved, black_king_moved,
          white_rook_a_moved, white_rook_h_moved, black_rook_a_moved,
          black_rook_h_moved, en_passant_target, move_history, objects,
          script, budget>>

-----------------------------------------------------------------------------
\* Enumerations

WHITE == "white"
BLACK == "black"

PAWN == "pawn"
ROOK == "rook"
KNIGHT == "knight"
BISHOP == "bishop"
QUEEN == "queen"
KING == "king"

MENU == "menu"
GAME_SETUP == "game_setup"
PLAYING == "playing"
PAUSED == "paused"
GAME_OVER == "game_over"

\* Python's None where a Piece is expected.
None == [type |-> "none", color |-> "none", row |-> -1, col |-> -1,
         has_moved |-> FALSE, id |-> -1]

\* Piece.__init__; id is the identity of the new object.
Piece(piece_type, color, row, col, id) ==
    [type |-> piece_type, color |-> color, row |-> row, col |-> col,
     has_moved |-> FALSE, id |-> id]

Rows == 0..7
Cols == 0..7

Abs(x) == IF x < 0 THEN -x ELSE x

Range(seq) == {seq[i] : i \in 1..Len(seq)}

OnBoard(row, col) == row \in Rows /\ col \in Cols

Opponent(color) == IF color = WHITE THEN BLACK ELSE WHITE

\* create_initial_board; base is the number of Piece objects that exist already.
\* Objects are numbered in the order the two loops construct them.
BackRow == <<ROOK, KNIGHT, BISHOP, QUEEN, KING, BISHOP, KNIGHT, ROOK>>

CreateInitialBoard(base) ==
    [row \in Rows |-> [col \in Cols |->
        CASE row = 1 -> Piece(PAWN, BLACK, 1, col, base + 2 * col)
          [] row = 6 -> Piece(PAWN, WHITE, 6, col, base + 2 * col + 1)
          [] row = 0 -> Piece(BackRow[col + 1], BLACK, 0, col, base + 16 + 2 * col)
          [] row = 7 -> Piece(BackRow[col + 1], WHITE, 7, col, base + 16 + 2 * col + 1)
          [] OTHER -> None]]

\* The object self as one value, for the methods below.
Self ==
    [board |-> board, turn |-> turn,
     selected_piece |-> selected_piece, valid_moves |-> valid_moves,
     white_king_moved |-> white_king_moved, black_king_moved |-> black_king_moved,
     white_rook_a_moved |-> white_rook_a_moved, white_rook_h_moved |-> white_rook_h_moved,
     black_rook_a_moved |-> black_rook_a_moved, black_rook_h_moved |-> black_rook_h_moved,
     en_passant_target |-> en_passant_target, move_history |-> move_history,
     objects |-> objects]

-----------------------------------------------------------------------------
\* Move generator

\* Pawn moves without the two-square advance.
GetPawnMovesOneStep(s, piece) ==
    LET new_row == piece.row + (IF piece.color = WHITE THEN -1 ELSE 1)
    IN IF new_row \in Rows /\ s.board[new_row][piece.col] = None
       THEN << <<new_row, piece.col>> >> ELSE <<>>

\* get_pawn_moves
GetPawnMoves(s, piece) ==
    LET direction == IF piece.color = WHITE THEN -1 ELSE 1
        new_row == piece.row + direction
        two_rows_ahead == piece.row + 2 * direction
        double ==
            IF (piece.color = WHITE /\ piece.row = 6) \/ (piece.color = BLACK /\ piece.row = 1)
            THEN IF s.board[two_rows_ahead][piece.col] = None
                 THEN << <<two_rows_ahead, piece.col>> >> ELSE <<>>
            ELSE <<>>
        forward ==
            IF new_row \in Rows /\ s.board[new_row][piece.col] = None
            THEN << <<new_row, piece.col>> >> \o double
            ELSE <<>>
        Capture(col) ==
            IF col \in Cols /\ new_row \in Rows
               /\ s.board[new_row][col] # None
               /\ s.board[new_row][col].color # piece.color
            THEN << <<new_row, col>> >> ELSE <<>>
        en_passant ==
            IF s.en_passant_target # <<>>
            THEN LET ep_row == s.en_passant_target[1]
                     ep_col == s.en_passant_target[2]
                     capture_row == piece.row + direction
                 IN IF piece.row = ep_row /\ Abs(piece.col - ep_col) = 1
                       /\ capture_row = ep_row - direction
                    THEN << <<capture_row, ep_col>> >> ELSE <<>>
            ELSE <<>>
    IN forward \o Capture(piece.col - 1) \o Capture(piece.col + 1) \o en_passant

\* A direction that does not stop at the first piece of the other colour.
RayThrough(s, piece, dr, dc, i) ==
    LET Steps(sq) == {k \in 1..7 :
                         k * (Abs(dr) + Abs(dc))
                             <= Abs(sq[1] - piece.row) + Abs(sq[2] - piece.col)}
        Open(sq) == /\ OnBoard(sq[1], sq[2])
                    /\ \A k \in Steps(sq) :
                          LET target == s.board[piece.row + k * dr][piece.col + k * dc]
                          IN target = None \/ target.color # piece.color
    IN SelectSeq([k \in 1..7 |-> <<piece.row + k * dr, piece.col + k * dc>>], Open)

\* One direction of the sliding loops of get_rook_moves and get_bishop_moves,
\* from step i on: "for i in range(1, 8)" with its three break/append branches.
RECURSIVE Ray(_, _, _, _, _)
Ray(s, piece, dr, dc, i) ==
    LET new_row == piece.row + i * dr
        new_col == piece.col + i * dc
    IN IF i > 7 \/ ~OnBoard(new_row, new_col) THEN <<>>
       ELSE LET target == s.board[new_row][new_col]
            IN IF target = None
               THEN << <<new_row, new_col>> >> \o Ray(s, piece, dr, dc, i + 1)
               ELSE IF target.color # piece.color
                    THEN << <<new_row, new_col>> >>
                    ELSE <<>>

\* get_rook_moves: Right, Left, Down, Up
GetRookMoves(s, piece) ==
    Ray(s, piece, 0, 1, 1) \o Ray(s, piece, 0, -1, 1)
        \o Ray(s, piece, 1, 0, 1) \o Ray(s, piece, -1, 0, 1)

\* get_bishop_moves
GetBishopMoves(s, piece) ==
    Ray(s, piece, 1, 1, 1) \o Ray(s, piece, 1, -1, 1)
        \o Ray(s, piece, -1, 1, 1) \o Ray(s, piece, -1, -1, 1)

\* get_queen_moves
GetQueenMoves(s, piece) == GetRookMoves(s, piece) \o GetBishopMoves(s, piece)

\* The offset loop shared by get_knight_moves and get_king_moves.
OffsetMoves(s, piece, offsets) ==
    LET cand == [i \in 1..Len(offsets) |->
                    <<piece.row + offsets[i][1], piece.col + offsets[i][2]>>]
        Free(m) == OnBoard(m[1], m[2])
                   /\ (s.board[m[1]][m[2]] = None
                       \/ s.board[m[1]][m[2]].color # piece.color)
    IN SelectSeq(cand, Free)

\* get_knight_moves
GetKnightMoves(s, piece) ==
    OffsetMoves(s, piece, << <<-2, -1>>, <<-2, 1>>, <<-1, -2>>, <<-1, 2>>,
                             <<1, -2>>, <<1, 2>>, <<2, -1>>, <<2, 1>> >>)

\* Castling conditions that do not look at the squares between king and rook.
CastlingOfferedAcross(s, color, king_flag, rook_flag, home_row, empty_cols, rook_col) ==
    /\ ~king_flag
    /\ ~rook_flag
    /\ s.board[home_row][rook_col] # None
    /\ s.board[home_row][rook_col].type = ROOK
    /\ s.board[home_row][rook_col].color = color

\* The castling conditions of get_king_moves for one colour and one side:
\* the two flags, the squares that must be None, and the rook in the corner.
CastlingOffered(s, color, king_flag, rook_flag, home_row, empty_cols, rook_col) ==
    /\ ~king_flag
    /\ ~rook_flag
    /\ \A c \in empty_cols : s.board[home_row][c] = None
    /\ s.board[home_row][rook_col] # None
    /\ s.board[home_row][rook_col].type = ROOK
    /\ s.board[home_row][rook_col].color = color

\* get_king_moves: the eight neighbours, then kingside and queenside castling.
GetKingMoves(s, piece) ==
    LET regular ==
            OffsetMoves(s, piece, << <<-1, -1>>, <<-1, 0>>, <<-1, 1>>,
                                     <<0, -1>>, <<0, 1>>,
                                     <<1, -1>>, <<1, 0>>, <<1, 1>> >>)
        kingside ==
            IF piece.color = WHITE
            THEN CastlingOffered(s, WHITE, s.white_king_moved, s.white_rook_h_moved, 7, {5, 6}, 7)
            ELSE CastlingOffered(s, BLACK, s.black_king_moved, s.black_rook_h_moved, 0, {5, 6}, 7)
        queenside ==
            IF piece.color = WHITE
            THEN CastlingOffered(s, WHITE, s.white_king_moved, s.white_rook_a_moved, 7, {1, 2, 3}, 0)
            ELSE CastlingOffered(s, BLACK, s.black_king_moved, s.black_rook_a_moved, 0, {1, 2, 3}, 0)
        home_row == IF piece.color = WHITE THEN 7 ELSE 0
        castling ==
            IF ~piece.has_moved
            THEN (IF kingside THEN << <<home_row, 6>> >> ELSE <<>>)
                 \o (IF queenside THEN << <<home_row, 2>> >> ELSE <<>>)
            ELSE <<>>
    IN regular \o castling

-----------------------------------------------------------------------------
\* Check detector

\* An attack set in which a king also reaches the squares two steps away.
GetValidMovesForOpponentLongKing(s, piece) ==
    CASE piece.type = PAWN ->
            LET new_row == piece.row + (IF piece.color = WHITE THEN 1 ELSE -1)
                Attack(dc) == IF OnBoard(new_row, piece.col + dc)
                              THEN << <<new_row, piece.col + dc>> >> ELSE <<>>
            IN Attack(-1) \o Attack(1)
      [] piece.type = ROOK -> GetRookMoves(s, piece)
      [] piece.type = KNIGHT -> GetKnightMoves(s, piece)
      [] piece.type = BISHOP -> GetBishopMoves(s, piece)
      [] piece.type = QUEEN -> GetQueenMoves(s, piece)
      [] piece.type = KING ->
            LET Near(i) == <<piece.row + ((i - 1) \div 5) - 2, piece.col + ((i - 1) % 5) - 2>>
                IsNear(m) == OnBoard(m[1], m[2]) /\ m # <<piece.row, piece.col>>
            IN SelectSeq([i \in 1..25 |-> Near(i)], IsNear)
      [] OTHER -> <<>>

\* get_valid_moves_for_opponent
GetValidMovesForOpponent(s, piece) ==
    CASE piece.type = PAWN ->
            LET direction == IF piece.color = WHITE THEN 1 ELSE -1
                new_row == piece.row + direction
                Attack(dc) == IF OnBoard(new_row, piece.col + dc)
                              THEN << <<new_row, piece.col + dc>> >> ELSE <<>>
            IN Attack(-1) \o Attack(1)
      [] piece.type = ROOK -> GetRookMoves(s, piece)
      [] piece.type = KNIGHT -> GetKnightMoves(s, piece)
      [] piece.type = BISHOP -> GetBishopMoves(s, piece)
      [] piece.type = QUEEN -> GetQueenMoves(s, piece)
      [] piece.type = KING ->
            LET moves == GetKingMoves(s, piece)
            IN SubSeq(moves, 1, IF Len(moves) < 8 THEN Len(moves) ELSE 8)
      [] OTHER -> <<>>

\* A search that settles for the other side's king when there is none of that colour.
KingPosOfEither(s, color) ==
    LET IsKing(row, col) == s.board[row][col] # None /\ s.board[row][col].type = KING
        Before(a, b) == a[1] < b[1] \/ (a[1] = b[1] /\ a[2] <= b[2])
        own == {sq \in Rows \X Cols : IsKing(sq[1], sq[2]) /\ s.board[sq[1]][sq[2]].color = color}
        any == {sq \in Rows \X Cols : IsKing(sq[1], sq[2])}
    IN IF own # {} THEN CHOOSE sq \in own : \A other \in own : Before(sq, other)
       ELSE IF any # {} THEN CHOOSE sq \in any : \A other \in any : Before(sq, other)
       ELSE <<>>

\* The first loop of is_king_in_check: the first king of that colour in
\* row-major order, <<>> when there is none.
KingPos(s, color) ==
    LET IsKing(row, col) == s.board[row][col] # None
                            /\ s.board[row][col].type = KING
                            /\ s.board[row][col].color = color
        kings == {sq \in Rows \X Cols : IsKing(sq[1], sq[2])}
    IN IF kings = {} THEN <<>>
       ELSE CHOOSE sq \in kings :
                \A other \in kings :
                    sq[1] < other[1] \/ (sq[1] = other[1] /\ sq[2] <= other[2])

\* A detector that never reports a check.
IsKingInCheckNever(s, color) == FALSE

\* is_king_in_check
IsKingInCheck(s, color) ==
    LET king_pos == KingPos(s, color)
        opponent_color == IF color = WHITE THEN BLACK ELSE WHITE
    IN IF king_pos = <<>> THEN FALSE
       ELSE \E row \in Rows, col \in Cols :
                LET piece == s.board[row][col]
                IN /\ piece # None
                   /\ piece.color = opponent_color
                   /\ king_pos \in Range(GetValidMovesForOpponent(
                          s, [piece EXCEPT !.row = row, !.col = col]))

\* The temporary move of move_puts_king_in_check.
ProbeBoard(s, piece, dest_row, dest_col) ==
    [s.board EXCEPT ![dest_row][dest_col] =
                        [piece EXCEPT !.row = dest_row, !.col = dest_col],
                    ![piece.row][piece.col] = None]

\* A filter that lets every move through.
MovePutsKingInCheckNever(s, piece, dest_row, dest_col) == FALSE

\* move_puts_king_in_check
MovePutsKingInCheck(s, piece, dest_row, dest_col) ==
    IsKingInCheck([s EXCEPT !.board = ProbeBoard(s, piece, dest_row, dest_col)],
                  piece.color)

\* The squares in the order of the two loops "for row ... for col ...".
RowMajor == [i \in 1..64 |-> <<(i - 1) \div 8, (i - 1) % 8>>]

\* The board the second loop of is_king_in_check leaves, from the i-th of the
\* squares it stops at (those holding an opposing piece) on: the piece has its
\* recorded position set to its square while its attack set is computed, and
\* set back; the loop ends at the first piece that attacks king_pos.
RECURSIVE CheckVisits(_, _, _, _, _)
CheckVisits(s, b, squares, king_pos, i) ==
    IF i > Len(squares) THEN b
    ELSE LET row == squares[i][1]
             col == squares[i][2]
             piece == b[row][col]
             original_row == piece.row
             original_col == piece.col
             placed == [piece EXCEPT !.row = row, !.col = col]
             moves == GetValidMovesForOpponent(
                          [s EXCEPT !.board = [b EXCEPT ![row][col] = placed]], placed)
             restored == [placed EXCEPT !.row = original_row, !.col = original_col]
             b1 == [b EXCEPT ![row][col] = restored]
         IN IF king_pos \in Range(moves) THEN b1
            ELSE CheckVisits(s, b1, squares, king_pos, i + 1)

\* The object is_king_in_check leaves behind.
IsKingInCheckLeaves(s, color) ==
    LET IsOpponent(sq) == s.board[sq[1]][sq[2]] # None
                          /\ s.board[sq[1]][sq[2]].color = Opponent(color)
    IN IF KingPos(s, color) = <<>> THEN s
       ELSE [s EXCEPT !.board = CheckVisits(s, s.board, SelectSeq(RowMajor, IsOpponent),
                                            KingPos(s, color), 1)]

\* An undo that does not put the captured piece back.
ProbeUndoForgets(b, piece, original_piece, original_row, original_col, dest_row, dest_col) ==
    [b EXCEPT ![original_row][original_col] =
                  [piece EXCEPT !.row = original_row, !.col = original_col],
              ![dest_row][dest_col] = None]

\* "Undo move" of move_puts_king_in_check, on the board b; piece is the
\* object that was moved.
ProbeUndo(b, piece, original_piece, original_row, original_col, dest_row, dest_col) ==
    [b EXCEPT ![original_row][original_col] =
                  [piece EXCEPT !.row = original_row, !.col = original_col],
              ![dest_row][dest_col] = original_piece]

\* The object move_puts_king_in_check leaves behind: the temporary move, the
\* check, the undo.
MovePutsKingInCheckLeaves(s, piece, dest_row, dest_col) ==
    LET original_piece == s.board[dest_row][dest_col]
        original_row == piece.row
        original_col == piece.col
        checked == IsKingInCheckLeaves(
                       [s EXCEPT !.board = ProbeBoard(s, piece, dest_row, dest_col)],
                       piece.color)
    IN [checked EXCEPT !.board =
            ProbeUndo(checked.board, checked.board[dest_row][dest_col], original_piece,
                      original_row, original_col, dest_row, dest_col)]

\* The dispatch on piece.type at the head of get_valid_moves.
PseudoMoves(s, piece) ==
    CASE piece.type = PAWN -> GetPawnMoves(s, piece)
      [] piece.type = ROOK -> GetRookMoves(s, piece)
      [] piece.type = KNIGHT -> GetKnightMoves(s, piece)
      [] piece.type = BISHOP -> GetBishopMoves(s, piece)
      [] piece.type = QUEEN -> GetQueenMoves(s, piece)
      [] piece.type = KING -> GetKingMoves(s, piece)
      [] OTHER -> <<>>

\* get_valid_moves
GetValidMoves(s, piece) ==
    LET Safe(move) == ~MovePutsKingInCheck(s, piece, move[1], move[2])
    IN SelectSeq(PseudoMoves(s, piece), Safe)

-----------------------------------------------------------------------------
\* Move executor

\* A castling branch that leaves the rook on its corner.
CastleRookStays(s, piece, dest_row, dest_col) == s.board

\* The castling branch of make_move: the rook of the king's side goes to the
\* square the king passes over.
CastleRook(s, piece, dest_row, dest_col) ==
    IF piece.type = KING /\ Abs(dest_col - piece.col) = 2
    THEN LET rook_start_col == IF dest_col > piece.col THEN 7 ELSE 0
             rook_dest_col == IF dest_col > piece.col THEN dest_col - 1 ELSE dest_col + 1
             rook == s.board[piece.row][rook_start_col]
         IN [s.board EXCEPT
                ![piece.row][rook_dest_col] =
                    [rook EXCEPT !.col = rook_dest_col, !.has_moved = TRUE],
                ![piece.row][rook_start_col] = None]
    ELSE s.board

\* The en-passant branch of make_move, on the board b left by the castling branch.
EnPassantCapture(s, b, piece, dest_row, dest_col) ==
    IF piece.type = PAWN /\ s.en_passant_target # <<>>
       /\ dest_row = s.en_passant_target[1] /\ dest_col = s.en_passant_target[2]
    THEN LET captured_row == piece.row
         IN [b EXCEPT ![captured_row][dest_col] = None]
    ELSE b

\* A target set by a move of two rows of any piece.
NextEnPassantTargetAnyPiece(piece, dest_row, dest_col) ==
    IF Abs(dest_row - piece.row) = 2
    THEN <<(dest_row + piece.row) \div 2, dest_col>>
    ELSE <<>>

\* "Record move for en passant possibility check"
NextEnPassantTarget(piece, dest_row, dest_col) ==
    IF piece.type = PAWN /\ Abs(dest_row - piece.row) = 2
    THEN <<(dest_row + piece.row) \div 2, dest_col>>
    ELSE <<>>

\* A relocation that leaves the piece on its origin as well.
RelocateCopies(b, piece, dest_row, dest_col) ==
    [b EXCEPT ![dest_row][dest_col] =
                  [piece EXCEPT !.row = dest_row, !.col = dest_col, !.has_moved = TRUE]]

\* "Move the piece", on the board b left by the two branches above.
Relocate(b, piece, dest_row, dest_col) ==
    [b EXCEPT ![dest_row][dest_col] =
                  [piece EXCEPT !.row = dest_row, !.col = dest_col, !.has_moved = TRUE],
              ![piece.row][piece.col] = None]

\* "Update castling rights" for a rook; moved is the rook after its relocation
\* and column is the corner column the flag belongs to.
RookFlag(flag, moved, color, column) ==
    flag \/ (moved.type = ROOK /\ moved.color = color /\ moved.col = column)

\* "Update castling rights" for a king.
KingFlag(flag, moved, color) ==
    flag \/ (moved.type = KING /\ moved.color = color)

\* The condition of "Handle pawn promotion"; moved is the piece after its relocation.
IsPromotion(moved) ==
    moved.type = PAWN
    /\ ((moved.color = WHITE /\ moved.row = 0) \/ (moved.color = BLACK /\ moved.row = 7))

\* A promotion that leaves the pawn where it arrived.
PromoteNever(s, b, moved, dest_row, dest_col) == b

\* "Handle pawn promotion", on the board b after the relocation.
Promote(s, b, moved, dest_row, dest_col) ==
    IF IsPromotion(moved)
    THEN [b EXCEPT ![dest_row][dest_col] =
                       Piece(QUEEN, moved.color, dest_row, dest_col, s.objects)]
    ELSE b

\* A turn that stays with the side that moved.
SwitchTurnStays(side) == side

\* "Switch turn"
SwitchTurn(side) == IF side = WHITE THEN BLACK ELSE WHITE

\* The entry make_move appends to move_history; moved is the piece after its
\* relocation, which is when the entry is built.
HistoryEntry(moved, dest_row, dest_col, captured_piece) ==
    [piece |-> moved.id,
     from |-> <<moved.row, moved.col>>,
     to |-> <<dest_row, dest_col>>,
     captured |-> captured_piece.id]

\* make_move
MakeMove(s, piece, dest_row, dest_col) ==
    LET board1 == CastleRook(s, piece, dest_row, dest_col)
        board2 == EnPassantCapture(s, board1, piece, dest_row, dest_col)
        captured_piece == board2[dest_row][dest_col]
        board3 == Relocate(board2, piece, dest_row, dest_col)
        moved == [piece EXCEPT !.row = dest_row, !.col = dest_col, !.has_moved = TRUE]
        board4 == Promote(s, board3, moved, dest_row, dest_col)
    IN [board |-> board4,
        turn |-> SwitchTurn(s.turn),
        selected_piece |-> None,
        valid_moves |-> <<>>,
        white_king_moved |-> KingFlag(s.white_king_moved, moved, WHITE),
        black_king_moved |-> KingFlag(s.black_king_moved, moved, BLACK),
        white_rook_a_moved |-> RookFlag(s.white_rook_a_moved, moved, WHITE, 0),
        white_rook_h_moved |-> RookFlag(s.white_rook_h_moved, moved, WHITE, 7),
        black_rook_a_moved |-> RookFlag(s.black_rook_a_moved, moved, BLACK, 0),
        black_rook_h_moved |-> RookFlag(s.black_rook_h_moved, moved, BLACK, 7),
        en_passant_target |-> NextEnPassantTarget(piece, dest_row, dest_col),
        move_history |-> Append(s.move_history,
                                HistoryEntry(moved, dest_row, dest_col, captured_piece)),
        objects |-> IF IsPromotion(moved) THEN s.objects + 1 ELSE s.objects]

\* possible_moves of ai_make_move: every (piece, dest_row, dest_col) of the
\* side to move.  random.choice may return any of them.
PossibleMoves(s) ==
    UNION {{[piece |-> s.board[sq[1]][sq[2]], dest_row |-> m[1], dest_col |-> m[2]] :
                m \in Range(GetValidMoves(s, s.board[sq[1]][sq[2]]))} :
           sq \in {q \in Rows \X Cols :
                      s.board[q[1]][q[2]] # None /\ s.board[q[1]][q[2]].color = s.turn}}

-----------------------------------------------------------------------------
\* Input events.  A behaviour first receives the events of its script, in
\* order, and then at most MaxFree further events of any kind.

Event(kind) == <<kind, 0, 0, 0, 0>>
Click(row, col) == <<"board", row, col, 0, 0>>
Choice(from_row, from_col, dest_row, dest_col) ==
    <<"ai", from_row, from_col, dest_row, dest_col>>

\* The event is the next one of the script, or the script is over and the
\* budget allows one more.
Accepts(ev) == IF script # <<>> THEN Head(script) = ev ELSE budget > 0

\* What is left of the script and of the budget once the event is delivered.
Rest == IF script # <<>> THEN Tail(script) ELSE <<>>
Left == IF script # <<>> THEN budget ELSE budget - 1

Deliver(ev) == Accepts(ev) /\ script' = Rest /\ budget' = Left

\* The variables of the object take the values of s.
Becomes(s) ==
    /\ board' = s.board
    /\ turn' = s.turn
    /\ selected_piece' = s.selected_piece
    /\ valid_moves' = s.valid_moves
    /\ white_king_moved' = s.white_king_moved
    /\ black_king_moved' = s.black_king_moved
    /\ white_rook_a_moved' = s.white_rook_a_moved
    /\ white_rook_h_moved' = s.white_rook_h_moved
    /\ black_rook_a_moved' = s.black_rook_a_moved
    /\ black_rook_h_moved' = s.black_rook_h_moved
    /\ en_passant_target' = s.en_passant_target
    /\ move_history' = s.move_history
    /\ objects' = s.objects

engine == <<board, turn, white_king_moved, black_king_moved, white_rook_a_moved,
            white_rook_h_moved, black_rook_a_moved, black_rook_h_moved,
            en_passant_target, move_history, objects>>

-----------------------------------------------------------------------------
\* Scripts.  A ply is <<from_row, from_col, dest_row, dest_col>>.

\* The events that play the plies i.. of a game: the player clicks the origin
\* and the destination of White's first ply and of every ply of player's
\* colour; the other plies are the AI's.
RECURSIVE PlyEvents(_, _, _)
PlyEvents(player, plies, i) ==
    IF i > Len(plies) THEN <<>>
    ELSE LET p == plies[i]
             mover == IF i % 2 = 1 THEN WHITE ELSE BLACK
         IN (IF mover = player \/ i = 1
             THEN <<Click(p[1], p[2]), Click(p[3], p[4])>>
             ELSE <<Choice(p[1], p[2], p[3], p[4])>>)
            \o PlyEvents(player, plies, i + 1)

\* From the menu: play, choose the colour, start, and play the plies.
Game(player, plies) ==
    <<Event("play"), Event(player), Event("start")>> \o PlyEvents(player, plies, 1)

\* 1. e4 e5 2. Nf3 Nc6 3. Bc4 Bc5: White may castle kingside.
CastleLine ==
    <<<<6, 4, 4, 4>>, <<1, 4, 3, 4>>, <<7, 6, 5, 5>>, <<0, 1, 2, 2>>, <<7, 5, 4, 2>>, <<0, 5, 3, 2>>>>

\* 1. e4 b6 2. Bb5 Ba6 3. Nf3 Bxb5: the black bishop on b5 attacks f1.
AttackedLine ==
    <<<<6, 4, 4, 4>>, <<1, 1, 2, 1>>, <<7, 5, 3, 1>>, <<0, 2, 2, 0>>, <<7, 6, 5, 5>>, <<2, 0, 3, 1>>>>

\* 1. a4 a6 2. Ra3 a5 3. Rh3 b6 4. e4 b5 5. Bc4 c6 6. Nf3 c5: the a-rook has visited the h-file.
RookLine ==
    <<<<6, 0, 4, 0>>, <<1, 0, 2, 0>>, <<7, 0, 5, 0>>, <<2, 0, 3, 0>>, <<5, 0, 5, 7>>, <<1, 1, 2, 1>>, <<6, 4, 4, 4>>, <<2, 1, 3, 1>>, <<7, 5, 4, 2>>, <<1, 2, 2, 2>>, <<7, 6, 5, 5>>, <<2, 2, 3, 2>>>>

\* 1. a3 d5 2. a4 d4 3. e4: the e-pawn passes the black pawn on d4.
EnPassantLine ==
    <<<<6, 0, 5, 0>>, <<1, 3, 3, 3>>, <<5, 0, 4, 0>>, <<3, 3, 4, 3>>, <<6, 4, 4, 4>>>>

\* 1. f3 f5 2. Kf2 f4 3. Ke3 fxe3: the king steps in front of a pawn.
KingLine ==
    <<<<6, 5, 5, 5>>, <<1, 5, 3, 5>>, <<7, 4, 6, 5>>, <<3, 5, 4, 5>>, <<6, 5, 5, 4>>, <<4, 5, 5, 4>>>>

\* 1. h4 a6 2. h5 a5 3. h6 a4 4. hxg7 a3: the pawn on g7 promotes on f8 or h8.
PromotionLine ==
    <<<<6, 7, 4, 7>>, <<1, 0, 2, 0>>, <<4, 7, 3, 7>>, <<2, 0, 3, 0>>, <<3, 7, 2, 7>>, <<3, 0, 4, 0>>, <<2, 7, 1, 6>>, <<4, 0, 5, 0>>>>

\* 1. h4 Nh6 2. h5 Ng4 3. h6 a6 4. hxg7 a5: the pawn on g7 promotes on g8, f8 or h8.
WhitePushLine ==
    <<<<6, 7, 4, 7>>, <<0, 6, 2, 7>>, <<4, 7, 3, 7>>, <<2, 7, 4, 6>>, <<3, 7, 2, 7>>, <<1, 0, 2, 0>>, <<2, 7, 1, 6>>, <<2, 0, 3, 0>>>>

\* 1. Nf3 h5 2. Ng5 h4 3. a3 h3 4. a4 hxg2 5. a5: the pawn on g2 promotes on g1, f1 or h1.
BlackPushLine ==
    <<<<7, 6, 5, 5>>, <<1, 7, 3, 7>>, <<5, 5, 3, 6>>, <<3, 7, 4, 7>>, <<6, 0, 5, 0>>, <<4, 7, 5, 7>>, <<5, 0, 4, 0>>, <<5, 7, 6, 6>>, <<4, 0, 3, 0>>>>

\* 1. e4 d5 2. exd5 Qxd5 3. Qe2 Qe5: the queen on e2 stands between e1 and the queen on e5.
QueenPinLine ==
    <<<<6, 4, 4, 4>>, <<1, 3, 3, 3>>, <<4, 4, 3, 3>>, <<0, 3, 3, 3>>, <<7, 3, 6, 4>>, <<3, 3, 3, 4>>>>

\* 1. e4 e5 2. Bb5: the pawn on d7 stands between e8 and the bishop on b5.
BishopPinLine ==
    <<<<6, 4, 4, 4>>, <<1, 4, 3, 4>>, <<7, 5, 3, 1>>>>

\* 1. f3 e5 2. g4 Qh4
FoolsMate ==
    <<<<6, 5, 5, 5>>, <<1, 4, 3, 4>>, <<6, 6, 4, 6>>, <<0, 3, 4, 7>>>>

\* 1. e3 a6 2. Qh5 a5 3. Nf3 Ra6 4. Qxa5 h5 5. h4 Rah6 6. Qxc7 f6 7. Qxd7+ Kf7
\* 8. Qxb7 Qd3 9. Qxb8 Qh7 10. Qxc8 Kg6 11. Qe6: Black is not in check and
\* has no legal move.
StalemateLine ==
    <<<<6, 4, 5, 4>>, <<1, 0, 2, 0>>, <<7, 3, 3, 7>>, <<2, 0, 3, 0>>, <<7, 6, 5, 5>>, <<0, 0, 2, 0>>, <<3, 7, 3, 0>>, <<1, 7, 3, 7>>, <<6, 7, 4, 7>>, <<2, 0, 2, 7>>, <<3, 0, 1, 2>>, <<1, 5, 2, 5>>, <<1, 2, 1, 3>>, <<0, 4, 1, 5>>, <<1, 3, 1, 1>>, <<0, 3, 5, 3>>, <<1, 1, 0, 1>>, <<5, 3, 1, 7>>, <<0, 1, 0, 2>>, <<1, 5, 2, 6>>, <<0, 2, 2, 4>>>>

\* 1. e4 e5 2. Nf3 Ke7 3. Be2 Kf6 4. a3 Kg6 5. a4 Kh5 6. b3 Kg4 7. b4 Kg3
\* 8. b5 Kxg2: the white king and the rook on h1 never moved, f1 and g1 are
\* empty, and the black king stands next to both.
KingWalkLine ==
    <<<<6, 4, 4, 4>>, <<1, 4, 3, 4>>, <<7, 6, 5, 5>>, <<0, 4, 1, 4>>, <<7, 5, 6, 4>>, <<1, 4, 2, 5>>, <<6, 0, 5, 0>>, <<2, 5, 2, 6>>, <<5, 0, 4, 0>>, <<2, 6, 3, 7>>, <<6, 1, 5, 1>>, <<3, 7, 4, 6>>, <<5, 1, 4, 1>>, <<4, 6, 5, 6>>, <<4, 1, 3, 1>>, <<5, 6, 6, 6>>>>

\* 1. d4 d5 2. Bf4 Bf5 3. Nc3 Nc6 4. Qd2 Qd7: both sides may castle queenside.
QueensideLine ==
    <<<<6, 3, 4, 3>>, <<1, 3, 3, 3>>, <<7, 2, 4, 5>>, <<0, 2, 3, 5>>, <<7, 1, 5, 2>>, <<0, 1, 2, 2>>, <<7, 3, 6, 3>>, <<0, 3, 1, 3>>>>

\* 1. e4 e5 2. Nf3 Nf6 3. Bc4 Bc5 4. a3: Black may castle kingside.
BlackCastleLine ==
    <<<<6, 4, 4, 4>>, <<1, 4, 3, 4>>, <<7, 6, 5, 5>>, <<0, 6, 2, 5>>, <<7, 5, 4, 2>>, <<0, 5, 3, 2>>, <<6, 0, 5, 0>>>>

\* 1. e4 e5 2. Ke2 a6: a first game that moves a king.
FirstGameLine ==
    <<<<6, 4, 4, 4>>, <<1, 4, 3, 4>>, <<7, 4, 6, 4>>, <<1, 0, 2, 0>>>>

\* 1. e4 e5
ShortLine ==
    <<<<6, 4, 4, 4>>, <<1, 4, 3, 4>>>>

\* Clicks that move nothing: on the black pawn e7 with White to move, on the
\* white pawn e2, which selects it, and on d5, which is no move of that pawn.
IdleClicks == <<Click(1, 4), Click(6, 4), Click(3, 3), Event("pause")>>

\* The scripted prefixes of Spec: the openings, clicks that move nothing, and
\* games that are paused, left and started again.
Scripts ==
    {Game(WHITE, <<>>),
     Game(BLACK, <<>>),
     Game(WHITE, <<>>) \o IdleClicks,
     Game(WHITE, <<>>) \o <<Event("pause")>>,
     Game(WHITE, ShortLine) \o <<Event("pause"), Event("quit"), Event("play")>>,
     Game(WHITE, FirstGameLine) \o <<Event("pause"), Event("quit")>> \o Game(WHITE, <<>>)}

\* The scripted prefixes of SpecCastle: positions that offer castling.
CastleScripts == {Game(WHITE, CastleLine), Game(WHITE, AttackedLine)}

\* The scripted prefixes of SpecSafe: a king with attacked neighbours, a pawn
\* about to promote.
SafeScripts == {Game(WHITE, AttackedLine), Game(WHITE, PromotionLine)}

\* The scripted prefixes of SpecLines.
LineScripts == {Game(BLACK, EnPassantLine), Game(WHITE, KingLine), Game(WHITE, RookLine)}

\* The scripted prefixes of SpecPromotion: a pawn of each side one step from
\* its last rank, with the square ahead empty and both diagonals capturable.
PromotionScripts == {Game(WHITE, WhitePushLine), Game(BLACK, BlackPushLine)}

\* The scripted prefixes of SpecPins: a pinned piece of each side.
PinScripts == {Game(WHITE, QueenPinLine), Game(BLACK, BishopPinLine)}

\* The scripted prefixes of SpecMate: Fool's mate with the player on either
\* side, and a stalemate.
MateScripts ==
    {Game(WHITE, FoolsMate), Game(BLACK, FoolsMate), Game(WHITE, StalemateLine)}

\* The scripted prefix of SpecKings: a king next to the castling squares of the other.
KingScripts == {Game(WHITE, KingWalkLine)}

\* The scripted prefixes of SpecCastling: queenside castling by White, as the
\* player, and kingside castling by Black, as the player.
CastlingScripts == {Game(WHITE, QueensideLine), Game(BLACK, BlackCastleLine)}

-----------------------------------------------------------------------------
\* The object after ChessGame.__init__

InitWith(scripts) ==
    /\ game_state = MENU
    /\ player_color = WHITE
    /\ board = CreateInitialBoard(0)
    /\ selected_piece = None
    /\ valid_moves = <<>>
    /\ turn = WHITE
    /\ game_over = FALSE
    /\ winner = None
    /\ white_king_moved = FALSE
    /\ black_king_moved = FALSE
    /\ white_rook_a_moved = FALSE
    /\ white_rook_h_moved = FALSE
    /\ black_rook_a_moved = FALSE
    /\ black_rook_h_moved = FALSE
    /\ en_passant_target = <<>>
    /\ move_history = <<>>
    /\ objects = 32
    /\ script \in scripts
    /\ budget = MaxFree

Init == InitWith(Scripts)

-----------------------------------------------------------------------------
\* The MOUSEBUTTONDOWN handlers of ChessGame.run, one per place a click can land.

\* MENU: the play button.
ClickPlay ==
    /\ game_state = MENU
    /\ Deliver(Event("play"))
    /\ game_state' = GAME_SETUP
    /\ UNCHANGED <<player_color, selected_piece, valid_moves, game_over, winner, engine>>

\* GAME_SETUP: the two colour buttons.
ClickColor(color) ==
    /\ game_state = GAME_SETUP
    /\ Deliver(Event(color))
    /\ player_color' = color
    /\ UNCHANGED <<game_state, selected_piece, valid_moves, game_over, winner, engine>>

\* A start button that also gives the castling rights back.
ClickStartResets ==
    /\ game_state = GAME_SETUP
    /\ Deliver(Event("start"))
    /\ game_state' = PLAYING
    /\ board' = CreateInitialBoard(objects)
    /\ objects' = objects + 32
    /\ turn' = WHITE
    /\ selected_piece' = None
    /\ valid_moves' = <<>>
    /\ white_king_moved' = FALSE /\ black_king_moved' = FALSE
    /\ white_rook_a_moved' = FALSE /\ white_rook_h_moved' = FALSE
    /\ black_rook_a_moved' = FALSE /\ black_rook_h_moved' = FALSE
    /\ UNCHANGED <<player_color, game_over, winner, en_passant_target, move_history>>

\* GAME_SETUP: the start button.
ClickStart ==
    /\ game_state = GAME_SETUP
    /\ Deliver(Event("start"))
    /\ game_state' = PLAYING
    /\ board' = CreateInitialBoard(objects)
    /\ objects' = objects + 32
    /\ turn' = WHITE
    /\ selected_piece' = None
    /\ valid_moves' = <<>>
    /\ UNCHANGED <<player_color, game_over, winner, white_king_moved, black_king_moved,
                   white_rook_a_moved, white_rook_h_moved, black_rook_a_moved,
                   black_rook_h_moved, en_passant_target, move_history>>

\* PLAYING: the pause button, which lies outside the board.
ClickPause ==
    /\ game_state = PLAYING
    /\ Deliver(Event("pause"))
    /\ game_state' = PAUSED
    /\ UNCHANGED <<player_color, selected_piece, valid_moves, game_over, winner, engine>>

\* PAUSED: the resume button.
ClickResume ==
    /\ game_state = PAUSED
    /\ Deliver(Event("resume"))
    /\ game_state' = PLAYING
    /\ UNCHANGED <<player_color, selected_piece, valid_moves, game_over, winner, engine>>

\* PAUSED: the quit button.
ClickQuit ==
    /\ game_state = PAUSED
    /\ Deliver(Event("quit"))
    /\ game_state' = MENU
    /\ selected_piece' = None
    /\ valid_moves' = <<>>
    /\ UNCHANGED <<player_color, game_over, winner, engine>>

\* A handler that takes every click for a move.
IsValidClickAnywhere(row, col) == TRUE

\* "Check if clicking on a valid move"
IsValidClick(row, col) == <<row, col>> \in Range(valid_moves)

\* A handler that selects pieces of either side.
IsSelectableEitherSide(clicked_piece) == clicked_piece # None

\* "Select a piece if it belongs to current player"
IsSelectable(clicked_piece) == clicked_piece # None /\ clicked_piece.color = turn

\* "If it's now AI's turn, make AI move", in the object s left by the player's move.
AiToMove(s) == s.turn # player_color /\ ~game_over

\* ai_make_move on the object s, then the deselection that ends the handler.
\* A scripted behaviour names the choice random.choice makes.
AiMakeMove(s) ==
    IF PossibleMoves(s) = {}
    THEN Becomes(s) /\ script' = Rest
    ELSE \E pm \in PossibleMoves(s) :
            /\ Rest # <<>> =>
                   Head(Rest) = Choice(pm.piece.row, pm.piece.col, pm.dest_row, pm.dest_col)
            /\ Becomes(MakeMove(s, pm.piece, pm.dest_row, pm.dest_col))
            /\ script' = IF Rest # <<>> THEN Tail(Rest) ELSE Rest

\* PLAYING: a click on the square (row, col) of the board.
ClickBoard(row, col) ==
    /\ game_state = PLAYING
    /\ Accepts(Click(row, col))
    /\ UNCHANGED <<game_state, player_color, game_over, winner>>
    /\ IF selected_piece # None
       THEN IF IsValidClick(row, col)
            THEN /\ budget' = Left
                 /\ IF AiToMove(MakeMove(Self, selected_piece, row, col))
                    THEN AiMakeMove(MakeMove(Self, selected_piece, row, col))
                    ELSE /\ Becomes(MakeMove(Self, selected_piece, row, col))
                         /\ script' = Rest
            ELSE /\ selected_piece' = None
                 /\ valid_moves' = <<>>
                 /\ script' = Rest /\ budget' = Left
                 /\ UNCHANGED engine
       ELSE IF IsSelectable(board[row][col])
            THEN /\ selected_piece' = board[row][col]
                 /\ valid_moves' = GetValidMoves(Self, board[row][col])
                 /\ script' = Rest /\ budget' = Left
                 /\ UNCHANGED engine
            ELSE /\ script' = Rest
                 /\ UNCHANGED <<selected_piece, valid_moves, engine, budget>>

Next ==
    \/ ClickPlay
    \/ \E color \in {WHITE, BLACK} : ClickColor(color)
    \/ ClickStart
    \/ ClickPause
    \/ ClickResume
    \/ ClickQuit
    \/ \E row \in Rows, col \in Cols : ClickBoard(row, col)

Spec == Init /\ [][Next]_vars

InitCastle == InitWith(CastleScripts)
SpecCastle == InitCastle /\ [][Next]_vars

InitSafe == InitWith(SafeScripts)
SpecSafe == InitSafe /\ [][Next]_vars

InitLines == InitWith(LineScripts)
SpecLines == InitLines /\ [][Next]_vars

InitPromotion == InitWith(PromotionScripts)
SpecPromotion == InitPromotion /\ [][Next]_vars

InitPins == InitWith(PinScripts)
SpecPins == InitPins /\ [][Next]_vars

InitMate == InitWith(MateScripts)
SpecMate == InitMate /\ [][Next]_vars

InitKings == InitWith(KingScripts)
SpecKings == InitKings /\ [][Next]_vars

InitCastling == InitWith(CastlingScripts)
SpecCastling == InitCastling /\ [][Next]_vars

-----------------------------------------------------------------------------
\* Vocabulary of the properties

Squares == Rows \X Cols

At(sq) == board[sq[1]][sq[2]]

Occupied(sq) == At(sq) # None

\* The squares holding a king of that colour.
Kings(color) == {sq \in Squares : Occupied(sq) /\ At(sq).type = KING /\ At(sq).color = color}

\* A king move of two columns.
IsCastling(piece, dest) == piece.type = KING /\ Abs(dest[2] - piece.col) = 2

\* The corner column a castling destination points at, and the columns between.
CornerCol(dest) == IF dest[2] > 4 THEN 7 ELSE 0
Between(piece, dest) ==
    {c \in Cols : (c > piece.col /\ c < CornerCol(dest)) \/ (c < piece.col /\ c > CornerCol(dest))}

\* The piece was never moved: make_move never relocated the object.
NeverMoved(piece) ==
    /\ ~piece.has_moved
    /\ \A i \in 1..Len(move_history) : move_history[i].piece # piece.id

\* The squares of a board hold the same kinds of pieces, whatever the objects.
SamePosition(b1, b2) ==
    \A sq \in Squares :
        /\ b1[sq[1]][sq[2]].type = b2[sq[1]][sq[2]].type
        /\ b1[sq[1]][sq[2]].color = b2[sq[1]][sq[2]].color

\* The object as ChessGame.__init__ leaves it.
Fresh ==
    [board |-> CreateInitialBoard(0), turn |-> WHITE,
     selected_piece |-> None, valid_moves |-> <<>>,
     white_king_moved |-> FALSE, black_king_moved |-> FALSE,
     white_rook_a_moved |-> FALSE, white_rook_h_moved |-> FALSE,
     black_rook_a_moved |-> FALSE, black_rook_h_moved |-> FALSE,
     en_passant_target |-> <<>>, move_history |-> <<>>, objects |-> 32]

-----------------------------------------------------------------------------
\* The moves the object is about to offer: those shown for the selected
\* piece, and, when none is selected, those of every piece of the side to move.
Offered ==
    IF selected_piece = None THEN PossibleMoves(Self)
    ELSE {[piece |-> selected_piece, dest_row |-> m[1], dest_col |-> m[2]] :
             m \in Range(valid_moves)}

\* C1: every destination get_valid_moves returns for a piece of the side to
\* move leads, once make_move has applied it (rook relocation and promotion
\* included), to a position in which the mover's king is not in check.
LegalMovesAreSafe ==
    \A pm \in Offered :
        ~IsKingInCheck(MakeMove(Self, pm.piece, pm.dest_row, pm.dest_col), pm.piece.color)

\* A position in which castling is offered to the side to move while the
\* filter removes other moves of the same king.
LegalMovesAreSafeWitness ==
    /\ game_state = PLAYING
    /\ \E pm \in PossibleMoves(Self) :
          /\ IsCastling(pm.piece, <<pm.dest_row, pm.dest_col>>)
          /\ Len(GetValidMoves(Self, pm.piece)) < Len(PseudoMoves(Self, pm.piece))

\* C2: right after a pawn has advanced two squares, every enemy pawn beside
\* it may capture onto the square it passed over; when no pawn has just done
\* so, no pawn may move diagonally onto an empty square.
EnPassantWindow ==
    /\ \A sq \in Squares :
          LET pawn == At(sq)
              last == move_history[Len(move_history)]
              passed == <<sq[1] + (IF pawn.color = WHITE THEN 1 ELSE -1), sq[2]>>
          IN (/\ move_history # <<>>
              /\ pawn.type = PAWN
              /\ last.piece = pawn.id
              /\ en_passant_target = passed
              /\ turn # pawn.color)
             => \A c \in {sq[2] - 1, sq[2] + 1} \cap Cols :
                    (board[sq[1]][c].type = PAWN /\ board[sq[1]][c].color = turn)
                    => passed \in Range(GetValidMoves(Self, board[sq[1]][c]))
    /\ en_passant_target = <<>> =>
          \A sq \in Squares :
              At(sq).type = PAWN =>
                  \A m \in Range(GetValidMoves(Self, At(sq))) :
                      m[2] # sq[2] => Occupied(m)

\* C3: a castling move is in a king's legal moves only if the king was never
\* moved, the corner on that side holds a rook of its colour that was never
\* moved, and the squares between them are empty.
CastlingOnlyWhenBasic ==
    \A sq \in Kings(WHITE) \cup Kings(BLACK) :
        \A dest \in Range(GetValidMoves(Self, At(sq))) :
            IsCastling(At(sq), dest) =>
                LET rook == board[sq[1]][CornerCol(dest)]
                IN /\ NeverMoved(At(sq))
                   /\ sq = <<IF At(sq).color = WHITE THEN 7 ELSE 0, 4>>
                   /\ rook.type = ROOK
                   /\ rook.color = At(sq).color
                   /\ NeverMoved(rook)
                   /\ \A c \in Between(At(sq), dest) : board[sq[1]][c] = None

\* A position in which a castling move is legal.
CastlingOnlyWhenBasicWitness ==
    /\ game_state = PLAYING
    /\ \E pm \in PossibleMoves(Self) : IsCastling(pm.piece, <<pm.dest_row, pm.dest_col>>)

\* C4: a castling move is in a king's legal moves only if the king is not in
\* check, and would be in check neither on the square it passes over nor on
\* its destination.
CastlingStrict ==
    \A sq \in Kings(WHITE) \cup Kings(BLACK) :
        \A dest \in Range(GetValidMoves(Self, At(sq))) :
            IsCastling(At(sq), dest) =>
                /\ ~IsKingInCheck(Self, At(sq).color)
                /\ ~MovePutsKingInCheck(Self, At(sq), sq[1], (sq[2] + dest[2]) \div 2)
                /\ ~MovePutsKingInCheck(Self, At(sq), dest[1], dest[2])

\* C5: whenever a king and the rook of a corner were never moved, the squares
\* between them are empty and the king is in check neither where it stands,
\* nor where it passes, nor where it lands, the castling move is legal.
CastlingAvailable ==
    \A color \in {WHITE, BLACK}, dest_col \in {2, 6} :
        LET home_row == IF color = WHITE THEN 7 ELSE 0
            king == board[home_row][4]
            dest == <<home_row, dest_col>>
            rook == board[home_row][CornerCol(dest)]
        IN (/\ king.type = KING /\ king.color = color /\ NeverMoved(king)
            /\ rook.type = ROOK /\ rook.color = color /\ NeverMoved(rook)
            /\ \A c \in Between(king, dest) : board[home_row][c] = None
            /\ ~IsKingInCheck(Self, color)
            /\ ~MovePutsKingInCheck(Self, king, home_row, (4 + dest_col) \div 2)
            /\ ~MovePutsKingInCheck(Self, king, home_row, dest_col))
           => dest \in Range(GetValidMoves(Self, king))

\* C6: every start of a game leaves the standard initial position with White
\* to move, no castling flag set, no en-passant target and an empty history.
GameStartsFresh ==
    [][(game_state = GAME_SETUP /\ game_state' = PLAYING) =>
           /\ SamePosition(board', Fresh.board)
           /\ \A sq \in Squares : ~board'[sq[1]][sq[2]].has_moved
           /\ turn' = WHITE
           /\ ~white_king_moved' /\ ~black_king_moved'
           /\ ~white_rook_a_moved' /\ ~white_rook_h_moved'
           /\ ~black_rook_a_moved' /\ ~black_rook_h_moved'
           /\ en_passant_target' = <<>>
           /\ move_history' = <<>>]_vars

\* C7: the board holds exactly one king of each side.
OneKingEach ==
    Cardinality(Kings(WHITE)) = 1 /\ Cardinality(Kings(BLACK)) = 1

\* Replaying the entries i.. of a history on the object s: each entry moves
\* the piece standing on its from-square to its to-square; an entry whose
\* from-square is empty moves nothing.
RECURSIVE Replay(_, _, _)
Replay(s, history, i) ==
    IF i > Len(history) THEN s
    ELSE LET entry == history[i]
             piece == s.board[entry.from[1]][entry.from[2]]
         IN Replay(IF piece = None THEN s
                   ELSE MakeMove(s, piece, entry.to[1], entry.to[2]),
                   history, i + 1)

\* C8: in the first game, replaying move_history on a fresh initial position
\* gives the board of the game.
ReplayReproducesBoard ==
    objects < 96 => SamePosition(Replay(Fresh, move_history, 1).board, board)

\* C9: a step of a game that changes the board, the turn, a castling flag,
\* the en-passant target or the history has moved the selected piece to one
\* of its legal destinations; any other request leaves all of them as they were.
RejectedMovesChangeNothing ==
    [][(game_state = PLAYING /\ engine' # engine) =>
           /\ selected_piece # None
           /\ Len(move_history') > Len(move_history)
           /\ move_history'[Len(move_history) + 1].piece = selected_piece.id
           /\ move_history'[Len(move_history) + 1].to
                  \in Range(GetValidMoves(Self, selected_piece))]_vars

\* The click on d5 with the pawn e2 selected has been handled: nothing moved.
RejectedMovesChangeNothingWitness ==
    /\ script = <<Event("pause")>>
    /\ game_state = PLAYING
    /\ selected_piece = None
    /\ move_history = <<>>
    /\ SamePosition(board, Fresh.board)

-----------------------------------------------------------------------------
\* The colour of the Piece object id on the board b.
ColorOf(b, id) ==
    LET holders == {sq \in Squares : b[sq[1]][sq[2]].id = id}
    IN IF holders = {} THEN "none"
       ELSE LET sq == CHOOSE sq \in holders : TRUE IN b[sq[1]][sq[2]].color

\* The entries a step appends to move_history.
Applied == Len(move_history') - Len(move_history)

\* C11: every move a step applies, the player's and then the AI's reply, moves
\* a piece of the side whose turn it is when the move is applied, and the turn
\* passes to the other side with each move.
TurnsAlternate ==
    [][Applied > 0 =>
           /\ \A i \in 1..Applied :
                  ColorOf(board, move_history'[Len(move_history) + i].piece)
                      = (IF i % 2 = 1 THEN turn ELSE Opponent(turn))
           /\ turn' = (IF Applied % 2 = 1 THEN Opponent(turn) ELSE turn)]_vars

\* The player has moved and the AI has replied: the turn is the player's again.
TurnsAlternateWitness ==
    /\ game_state = PLAYING
    /\ Len(move_history) >= 2
    /\ turn = player_color
    /\ ColorOf(board, move_history[Len(move_history)].piece) = Opponent(player_color)

\* C12: a castling flag that is set stays set, whatever happens next, a new
\* game included.
FlagsStaySet ==
    [][/\ white_king_moved => white_king_moved'
       /\ black_king_moved => black_king_moved'
       /\ white_rook_a_moved => white_rook_a_moved'
       /\ white_rook_h_moved => white_rook_h_moved'
       /\ black_rook_a_moved => black_rook_a_moved'
       /\ black_rook_h_moved => black_rook_h_moved']_vars

\* A second game has been started with the king flag of the first still set.
FlagsStaySetWitness ==
    /\ game_state = PLAYING
    /\ objects = 96
    /\ white_king_moved

\* C13: every legal move that takes a pawn to its last rank, by an advance or
\* by a capture, leaves a queen of the pawn's side on the destination square
\* and the pawn on no square.
PromotionGivesQueen ==
    \A pm \in Offered :
        LET after == MakeMove(Self, pm.piece, pm.dest_row, pm.dest_col).board
            last_rank == IF pm.piece.color = WHITE THEN 0 ELSE 7
        IN (pm.piece.type = PAWN /\ pm.dest_row = last_rank) =>
               /\ after[pm.dest_row][pm.dest_col].type = QUEEN
               /\ after[pm.dest_row][pm.dest_col].color = pm.piece.color
               /\ ColorOf(after, pm.piece.id) = "none"

\* A pawn has been moved to a last-rank square, which now holds an unmoved
\* queen that is another object, and the pawn is gone.
PromotionGivesQueenWitness ==
    \E i \in 1..Len(move_history) :
        LET entry == move_history[i]
        IN /\ entry.to[1] \in {0, 7}
           /\ At(entry.to).type = QUEEN
           /\ ~At(entry.to).has_moved
           /\ At(entry.to).id # entry.piece
           /\ ColorOf(board, entry.piece) = "none"

-----------------------------------------------------------------------------
Sign(x) == IF x > 0 THEN 1 ELSE IF x < 0 THEN -1 ELSE 0

\* The number of king steps from a to b.
Distance(a, b) ==
    IF Abs(b[1] - a[1]) > Abs(b[2] - a[2]) THEN Abs(b[1] - a[1]) ELSE Abs(b[2] - a[2])

Straight(a, b) == a # b /\ (a[1] = b[1] \/ a[2] = b[2])
Diagonal(a, b) == a # b /\ Abs(b[1] - a[1]) = Abs(b[2] - a[2])

\* The squares strictly between two squares of one rank, file or diagonal.
Line(a, b) ==
    {<<a[1] + k * Sign(b[1] - a[1]), a[2] + k * Sign(b[2] - a[2])>> :
        k \in 1..(Distance(a, b) - 1)}

\* The enemy rooks, bishops and queens that share a line with the square a
\* of a piece of that colour, each on a line it moves along.
Aimed(a, color) ==
    {sq \in Squares :
        /\ Occupied(sq)
        /\ At(sq).color = Opponent(color)
        /\ \/ Straight(a, sq) /\ At(sq).type \in {ROOK, QUEEN}
           \/ Diagonal(a, sq) /\ At(sq).type \in {BISHOP, QUEEN}}

\* The piece on sq is the only piece between its king on king_sq and the
\* enemy piece on enemy_sq.
Pinned(king_sq, sq, enemy_sq) ==
    /\ sq \in Line(king_sq, enemy_sq)
    /\ Occupied(sq)
    /\ At(sq).color = At(king_sq).color
    /\ \A other \in Line(king_sq, enemy_sq) \ {sq} : ~Occupied(other)

\* C14: every legal move of a piece pinned to its king by a rook, a bishop or
\* a queen ends on the line between the king and the pinning piece or on the
\* square of the pinning piece.
PinnedPiecesStayOnLine ==
    \A king_sq \in Kings(WHITE) \cup Kings(BLACK) :
        \A enemy_sq \in Aimed(king_sq, At(king_sq).color) :
            \A sq \in Line(king_sq, enemy_sq) :
                Pinned(king_sq, sq, enemy_sq) =>
                    \A m \in Range(GetValidMoves(Self, At(sq))) :
                        m \in Line(king_sq, enemy_sq) \cup {enemy_sq}

\* A pinned piece of the side to move that keeps some of its moves, the
\* capture of the pinning piece among them, and loses others.
PinnedPiecesStayOnLineWitness ==
    /\ game_state = PLAYING
    /\ \E king_sq \in Kings(turn) :
          \E enemy_sq \in Aimed(king_sq, turn) :
              \E sq \in Line(king_sq, enemy_sq) :
                  /\ Pinned(king_sq, sq, enemy_sq)
                  /\ enemy_sq \in Range(GetValidMoves(Self, At(sq)))
                  /\ Len(GetValidMoves(Self, At(sq))) < Len(PseudoMoves(Self, At(sq)))

\* C15: on the initial position the legal moves of every pawn are its advance
\* of one square and its advance of two squares, and nothing else.
InitialPawnMoves ==
    SamePosition(board, Fresh.board) =>
        \A col \in Cols :
            /\ Range(GetValidMoves(Self, board[6][col])) = {<<5, col>>, <<4, col>>}
            /\ Len(GetValidMoves(Self, board[6][col])) = 2
            /\ Range(GetValidMoves(Self, board[1][col])) = {<<2, col>>, <<3, col>>}
            /\ Len(GetValidMoves(Self, board[1][col])) = 2

\* A pawn has been selected on the initial position of a second game, which
\* starts with the en-passant target the first game left.
InitialPawnMovesWitness ==
    /\ game_state = PLAYING
    /\ SamePosition(board, Fresh.board)
    /\ en_passant_target # <<>>
    /\ selected_piece.type = PAWN
    /\ Len(valid_moves) = 2

-----------------------------------------------------------------------------
\* The object after the plies i.. are applied to s, each to the piece on its
\* origin square.
RECURSIVE Played(_, _, _)
Played(s, plies, i) ==
    IF i > Len(plies) THEN s
    ELSE Played(MakeMove(s, s.board[plies[i][1]][plies[i][2]], plies[i][3], plies[i][4]),
                plies, i + 1)

\* The moves f3, e5, g4, Qh4 have just been played from the initial position.
FoolsMated ==
    /\ game_state = PLAYING
    /\ turn = WHITE
    /\ SamePosition(board, Played(Fresh, FoolsMate, 1).board)
    /\ Len(move_history) >= 4
    /\ \A i \in 1..4 :
          move_history[Len(move_history) - 4 + i].to = <<FoolsMate[i][3], FoolsMate[i][4]>>

\* C16: after f3, e5, g4, Qh4 the white king is in check and no white piece
\* has a legal move.
FoolsMateIsMate ==
    FoolsMated =>
        /\ IsKingInCheck(Self, WHITE)
        /\ \A sq \in Squares :
              (Occupied(sq) /\ At(sq).color = WHITE) => GetValidMoves(Self, At(sq)) = <<>>

\* The four moves have been played, each accepted as a legal move, and the
\* player has selected the white king: no move is shown.
FoolsMateIsMateWitness ==
    /\ FoolsMated
    /\ selected_piece.type = KING
    /\ selected_piece.color = WHITE
    /\ valid_moves = <<>>

\* C17: the game is never declared over, and in a position in which the side
\* to move has no legal move nothing applies a move or changes the turn.
NeverGameOver ==
    /\ [](game_over = FALSE /\ winner = None /\ game_state # GAME_OVER)
    /\ [][(game_state = PLAYING /\ PossibleMoves(Self) = {}) => UNCHANGED engine]_vars

\* The side to move is not in check and has no legal move, the AI has been
\* asked for a move there, and the player has clicked on the board since.
NeverGameOverWitness ==
    /\ game_state = PLAYING
    /\ PossibleMoves(Self) = {}
    /\ ~IsKingInCheck(Self, turn)
    /\ turn # player_color
    /\ selected_piece # None
    /\ ~game_over

-----------------------------------------------------------------------------
\* The board without the kings of that colour.
Without(color) ==
    [row \in Rows |-> [col \in Cols |->
        IF <<row, col>> \in Kings(color) THEN None ELSE board[row][col]]]

\* C18: on a board that holds no king of a side, is_king_in_check of that side
\* is false: on the board of the game once that king has been captured, and on
\* the board of the game with that king taken off.
MissingKingNoCheck ==
    \A color \in {WHITE, BLACK} :
        ~IsKingInCheck([Self EXCEPT !.board = Without(color)], color)

\* The white king has been captured and the moves of a white piece have been
\* computed since, which asks whether White is in check.
MissingKingNoCheckWitness ==
    /\ game_state = PLAYING
    /\ Kings(WHITE) = {}
    /\ turn = WHITE
    /\ selected_piece # None
    /\ valid_moves # <<>>

-----------------------------------------------------------------------------
\* The two squares diagonally ahead of a pawn on sq, in its direction of travel.
AheadOf(sq, color) ==
    {<<sq[1] + (IF color = WHITE THEN -1 ELSE 1), sq[2] + dc>> : dc \in {-1, 1}} \cap Squares

\* C19: the squares check detection takes a pawn to attack are the two
\* squares diagonally ahead of it, and a king standing on one of them is
\* reported in check.
PawnsAttackAhead ==
    /\ \A sq \in Squares :
          At(sq).type = PAWN =>
              Range(GetValidMovesForOpponent(Self, At(sq))) = AheadOf(sq, At(sq).color)
    /\ \A king_sq \in Kings(WHITE) \cup Kings(BLACK) :
          (\E sq \in Squares :
               /\ At(sq).type = PAWN
               /\ At(sq).color # At(king_sq).color
               /\ king_sq \in AheadOf(sq, At(sq).color))
          => IsKingInCheck(Self, At(king_sq).color)

\* The castling flag of a colour for the king ("king") or for the rook of a
\* corner ("a", "h"), in the object s.
FlagOf(s, color, which) ==
    CASE color = WHITE /\ which = "king" -> s.white_king_moved
      [] color = WHITE /\ which = "a" -> s.white_rook_a_moved
      [] color = WHITE /\ which = "h" -> s.white_rook_h_moved
      [] color = BLACK /\ which = "king" -> s.black_king_moved
      [] color = BLACK /\ which = "a" -> s.black_rook_a_moved
      [] color = BLACK /\ which = "h" -> s.black_rook_h_moved

AllFlags == {WHITE, BLACK} \X {"king", "a", "h"}

\* The corner a piece stands on, when it stands on a corner of its home rank.
HomeCorner(piece) ==
    IF piece.row = (IF piece.color = WHITE THEN 7 ELSE 0) /\ piece.col \in {0, 7}
    THEN IF piece.col = 0 THEN "a" ELSE "h"
    ELSE "none"

\* C20: a legal move of a rook that leaves a home corner sets the flag of that
\* corner and no other; a legal move of a king sets the king flag of its
\* colour; a legal move of a rook from any other square, or of any other
\* piece, leaves the six flags as they were.
FlagsFollowTheMover ==
    \A pm \in Offered :
        LET after == MakeMove(Self, pm.piece, pm.dest_row, pm.dest_col)
            Kept(flags) == \A f \in flags : FlagOf(after, f[1], f[2]) = FlagOf(Self, f[1], f[2])
        IN CASE pm.piece.type = KING ->
                    FlagOf(after, pm.piece.color, "king")
             [] pm.piece.type = ROOK /\ HomeCorner(pm.piece) # "none" ->
                    /\ FlagOf(after, pm.piece.color, HomeCorner(pm.piece))
                    /\ Kept(AllFlags \ {<<pm.piece.color, HomeCorner(pm.piece)>>})
             [] OTHER -> Kept(AllFlags)

-----------------------------------------------------------------------------
\* C21: the entry a player's move appends names the moved piece, the square
\* it stood on, the square it went to, which is another square, and the piece
\* that stood there.
HistoryRecordsTheMove ==
    [][Applied > 0 =>
           LET entry == move_history'[Len(move_history) + 1]
           IN /\ entry.piece = selected_piece.id
              /\ entry.from = <<selected_piece.row, selected_piece.col>>
              /\ entry.to # entry.from
              /\ entry.captured = board[entry.to[1]][entry.to[2]].id]_vars

\* The on-board squares next to sq.
Adjacent(sq) == {a \in Squares : a # sq /\ Distance(sq, a) = 1}

\* C22: the squares check detection takes a king to attack are squares next
\* to the king.
KingsAttackNeighbours ==
    \A sq \in Kings(WHITE) \cup Kings(BLACK) :
        Range(GetValidMovesForOpponent(Self, At(sq))) \subseteq Adjacent(sq)

\* is_king_in_check with the attack set of a king taken to be the squares next
\* to it, and that of any other piece as get_valid_moves_for_opponent gives it.
InCheckByNeighbours(s, color) ==
    LET king_pos == KingPos(s, color)
        Attacks(piece) ==
            IF piece.type = KING THEN Adjacent(<<piece.row, piece.col>>)
            ELSE Range(GetValidMovesForOpponent(s, piece))
    IN /\ king_pos # <<>>
       /\ \E sq \in Squares :
              /\ s.board[sq[1]][sq[2]] # None
              /\ s.board[sq[1]][sq[2]].color # color
              /\ king_pos \in Attacks([s.board[sq[1]][sq[2]] EXCEPT !.row = sq[1], !.col = sq[2]])

\* C28: is_king_in_check gives, for either side, on the board of the game and
\* on the board of every probe of a king's move by move_puts_king_in_check,
\* the answer it would give if a king attacked the squares next to it and no
\* other.
CheckIgnoresCastling ==
    /\ \A color \in {WHITE, BLACK} :
          IsKingInCheck(Self, color) = InCheckByNeighbours(Self, color)
    /\ \A sq \in Kings(WHITE) \cup Kings(BLACK) :
          \A m \in Range(PseudoMoves(Self, At(sq))) :
              LET probe == [Self EXCEPT !.board = ProbeBoard(Self, At(sq), m[1], m[2])]
              IN IsKingInCheck(probe, At(sq).color) = InCheckByNeighbours(probe, At(sq).color)

\* The black king stands on g2, next to the castling destination g1, which
\* the attack set of the white king holds, and the moves of the white king
\* have been computed: castling was probed and dropped.
CheckIgnoresCastlingWitness ==
    /\ game_state = PLAYING
    /\ Kings(BLACK) = {<<6, 6>>}
    /\ selected_piece = board[7][4]
    /\ selected_piece.type = KING
    /\ <<7, 6>> \in Range(PseudoMoves(Self, selected_piece))
    /\ <<7, 6>> \notin Range(valid_moves)
    /\ <<7, 6>> \in Range(GetValidMovesForOpponent(Self, board[7][4]))

\* C23: is_king_in_check for either side, and every probe that get_valid_moves
\* makes for any piece of the side to move (captures included), leave the
\* board, the recorded position of every piece, the turn, the castling flags,
\* the en-passant target and the history as they were; each probe of the loop
\* therefore starts from the object the one before it started from.
ProbesLeaveNoTrace ==
    /\ \A color \in {WHITE, BLACK} : IsKingInCheckLeaves(Self, color) = Self
    /\ \A sq \in Squares :
          (Occupied(sq) /\ At(sq).color = turn) =>
              \A m \in Range(PseudoMoves(Self, At(sq))) :
                  MovePutsKingInCheckLeaves(Self, At(sq), m[1], m[2]) = Self

\* The moves of the selected piece have been computed, and its candidates
\* held a capture and other moves.
ProbesLeaveNoTraceWitness ==
    /\ game_state = PLAYING
    /\ selected_piece # None
    /\ Len(PseudoMoves(Self, selected_piece)) > 2
    /\ \E m \in Range(PseudoMoves(Self, selected_piece)) : Occupied(m)
    /\ valid_moves = GetValidMoves(Self, selected_piece)

\* C29: a move applied for a click of the player moves a piece of the
\* player's colour, and the move ai_make_move applies after it moves a piece
\* of the other colour.
PlayerMovesOwnPieces ==
    [][Applied > 0 =>
           /\ ColorOf(board, move_history'[Len(move_history) + 1].piece) = player_color
           /\ Applied = 2 =>
                  ColorOf(board, move_history'[Len(move_history) + 2].piece)
                      = Opponent(player_color)]_vars

-----------------------------------------------------------------------------
\* The square the Piece object id stands on, on the board b.
SquareOf(b, id) == CHOOSE sq \in Squares : b[sq[1]][sq[2]].id = id

\* C24: after a step that applied moves, the en-passant target is the square
\* between origin and destination of the last of them, in their column, when
\* that move took a pawn two rows forward, and is empty after any other move.
\* The last move of a step moves a piece that stood on its origin before the step.
EnPassantTargetFollowsLastMove ==
    [][Applied > 0 =>
           LET entry == move_history'[Len(move_history')]
               origin == SquareOf(board, entry.piece)
               dest == entry.to
           IN IF board[origin[1]][origin[2]].type = PAWN /\ Abs(dest[1] - origin[1]) = 2
              THEN /\ dest[2] = origin[2]
                   /\ en_passant_target' # <<>>
                   /\ en_passant_target'[2] = origin[2]
                   /\ Abs(en_passant_target'[1] - origin[1]) = 1
                   /\ Abs(en_passant_target'[1] - dest[1]) = 1
              ELSE en_passant_target' = <<>>]_vars

\* The third move or a later one was a pawn's double step: the pawn stands
\* two rows from its home row, past the target.
EnPassantTargetFollowsLastMoveWitness ==
    /\ game_state = PLAYING
    /\ Len(move_history) >= 3
    /\ en_passant_target # <<>>
    /\ At(<<2 * en_passant_target[1] - (IF turn = WHITE THEN 1 ELSE 6), en_passant_target[2]>>).type = PAWN

-----------------------------------------------------------------------------
\* The king moves the object is about to offer: those shown for a selected
\* king, and, when no piece is selected, those of the king of the side to move.
KingOffers ==
    IF selected_piece = None
    THEN UNION {{[piece |-> At(sq), dest_row |-> m[1], dest_col |-> m[2]] :
                    m \in Range(GetValidMoves(Self, At(sq)))} : sq \in Kings(turn)}
    ELSE {pm \in Offered : pm.piece.type = KING}

\* C25: a legal king move of two columns, once make_move has applied it,
\* leaves the king on its destination, the rook of the home corner of that
\* side next to it on the side the king came from (column 5 or column 3) with
\* that position recorded, the corner and the king's origin empty, and king
\* and rook marked as moved.
CastlingMovesKingAndRook ==
    \A pm \in KingOffers :
        IsCastling(pm.piece, <<pm.dest_row, pm.dest_col>>) =>
            LET after == MakeMove(Self, pm.piece, pm.dest_row, pm.dest_col).board
                home_row == pm.piece.row
                corner_col == IF pm.dest_col > pm.piece.col THEN 7 ELSE 0
                rook_col == IF pm.dest_col > pm.piece.col THEN 5 ELSE 3
                rook == board[home_row][corner_col]
            IN /\ rook.type = ROOK /\ rook.color = pm.piece.color
               /\ pm.dest_row = home_row
               /\ Abs(rook_col - pm.dest_col) = 1
               /\ after[pm.dest_row][pm.dest_col] =
                      [pm.piece EXCEPT !.col = pm.dest_col, !.has_moved = TRUE]
               /\ after[home_row][rook_col] =
                      [rook EXCEPT !.col = rook_col, !.has_moved = TRUE]
               /\ after[home_row][corner_col] = None
               /\ after[home_row][pm.piece.col] = None

\* A king has castled: its move of two columns is the last of the history, it
\* stands on column 6 or 2 of its home row, and the rook beside it has moved.
CastlingMovesKingAndRookWitness ==
    /\ game_state = PLAYING
    /\ move_history # <<>>
    /\ \E sq \in Kings(WHITE) \cup Kings(BLACK) :
          /\ move_history[Len(move_history)].piece = At(sq).id
          /\ sq[1] = (IF At(sq).color = WHITE THEN 7 ELSE 0)
          /\ \/ sq[2] = 6 /\ board[sq[1]][5].type = ROOK /\ board[sq[1]][5].has_moved
                         /\ ~Occupied(<<sq[1], 7>>) /\ ~Occupied(<<sq[1], 4>>)
             \/ sq[2] = 2 /\ board[sq[1]][3].type = ROOK /\ board[sq[1]][3].has_moved
                         /\ ~Occupied(<<sq[1], 0>>) /\ ~Occupied(<<sq[1], 4>>)

-----------------------------------------------------------------------------
\* The squares a piece of that type on the square a moves towards.
Slides(type, a, b) ==
    \/ type \in {ROOK, QUEEN} /\ Straight(a, b)
    \/ type \in {BISHOP, QUEEN} /\ Diagonal(a, b)

\* C26: the pseudo-legal destinations of a rook, bishop or queen are the
\* squares of the board on one of its lines (rank and file for the rook,
\* diagonals for the bishop, both for the queen) with only empty squares
\* between, that are empty or hold a piece of the other colour.
SlidersStopAtFirstPiece ==
    \A sq \in Squares :
        At(sq).type \in {ROOK, BISHOP, QUEEN} =>
            Range(PseudoMoves(Self, At(sq)))
                = {m \in Squares :
                      /\ Slides(At(sq).type, sq, m)
                      /\ \A x \in Line(sq, m) : ~Occupied(x)
                      /\ Occupied(m) => At(m).color # At(sq).color}

\* A piece of that type has a move to an empty square, a capture with a
\* square of the board behind the captured piece, and a piece of its own
\* colour at the end of a line.
SlidesEveryWay(type) ==
    \E sq \in Squares :
        /\ At(sq).type = type
        /\ \E m \in Range(PseudoMoves(Self, At(sq))) : ~Occupied(m)
        /\ \E m \in Range(PseudoMoves(Self, At(sq))) :
              /\ Occupied(m)
              /\ \E b \in Squares : Slides(type, sq, b) /\ m \in Line(sq, b)
        /\ \E b \in Squares :
              /\ Slides(type, sq, b) /\ Occupied(b) /\ At(b).color = At(sq).color
              /\ Line(sq, b) # {}
              /\ \A x \in Line(sq, b) : ~Occupied(x)

\* A queen does, and a rook or a bishop beside it.
SlidersStopAtFirstPieceWitness ==
    /\ game_state = PLAYING
    /\ SlidesEveryWay(QUEEN)
    /\ SlidesEveryWay(ROOK) \/ SlidesEveryWay(BISHOP)

-----------------------------------------------------------------------------
\* The squares of the board b that hold a piece of that colour.
Holding(b, color) == {sq \in Squares : b[sq[1]][sq[2]].color = color}

\* C27: in every reachable state no Piece object is on two squares and every
\* piece has the position of its square recorded; every move the object is
\* about to offer leaves the moving side as many pieces as it had, and the
\* other side as many or one less.
PiecesAreConserved ==
    /\ \A sq \in Squares :
          Occupied(sq) =>
              /\ At(sq).row = sq[1] /\ At(sq).col = sq[2]
              /\ \A other \in Squares : At(other).id = At(sq).id => other = sq
    /\ \A pm \in Offered :
          LET after == MakeMove(Self, pm.piece, pm.dest_row, pm.dest_col).board
              mover == pm.piece.color
              Lost(color) == Cardinality(Holding(board, color))
                                 - Cardinality(Holding(after, color))
          IN /\ Lost(mover) = 0
             /\ Lost(Opponent(mover)) \in {0, 1}

\* Pieces have been captured and a pawn has been promoted: the board holds
\* fewer than 32 pieces, one of them a queen that was never moved and stands
\* on a last row away from a queen's home column.
PiecesAreConservedWitness ==
    /\ game_state = PLAYING
    /\ Cardinality(Holding(board, WHITE) \cup Holding(board, BLACK)) < 32
    /\ \E sq \in Squares : At(sq).type = QUEEN /\ At(sq).has_moved = FALSE
                            /\ sq[1] \in {0, 7} /\ sq[2] # 3

====
